---- MODULE Spec2Model ----
(***************************************************************************)
(* Stats cache of the items API (backend/src/utils/stats.js) and the       *)
(* GET /api/stats route that serves it.                                    *)
(*                                                                         *)
(* The cache is a module-level slot (statsCache) filled once by            *)
(* initStatsCache and refreshed by a debounced fs.watch callback.  Time is *)
(* explicit: a timer created by setTimeout carries the milliseconds left   *)
(* until it is due, and the clock cannot pass a due timer.                 *)
(***************************************************************************)
EXTENDS Integers, Sequences, FiniteSets, TLC

\* ------------------------------------------------------------------------
\* Bounds of the model
\* ------------------------------------------------------------------------
MaxAggLen == 3         \* longest record array handed to the Aggregator alone
MaxNotifs == 2         \* 'change' notifications handled in one behaviour
MaxEvents == 1         \* watcher events queued and not yet delivered
MaxPosts == 2          \* POST /api/items requests in one behaviour
MaxClock == 2          \* milliseconds Date.now() advances in one behaviour
MaxPageItems == 2      \* records in the store of GET /api/items
MaxFetches == 3        \* fetchItems calls in one behaviour
MaxPages == 2          \* totalPages of the largest answer the frontend receives
TicksPerDelay == 3     \* clock steps per debounce delay

\* ------------------------------------------------------------------------
\* Program constants
\* ------------------------------------------------------------------------
Delay == 300           \* setTimeout(..., 300)
ServiceUnavailable == 503
OK == 200

TickStep == Delay \div TicksPerDelay
Beyond == Delay + 1    \* "more than Delay ago"

\* ------------------------------------------------------------------------
\* JavaScript values that can sit in a price field or in the accumulator of
\* mean(): numbers (rationals num/den), NaN, undefined, null and strings.
\* A string is a sequence of characters: 0..9 are the decimal digits and
\* NonDigit stands for any character that makes Number(s) NaN.
\* ------------------------------------------------------------------------
NonDigit == 10

Num(n, d) == [t |-> "number", num |-> n, den |-> d, str |-> << >>]
NaN == [t |-> "NaN", num |-> 0, den |-> 1, str |-> << >>]
Undefined == [t |-> "undefined", num |-> 0, den |-> 1, str |-> << >>]
JSNull == [t |-> "null", num |-> 0, den |-> 1, str |-> << >>]
Str(s) == [t |-> "string", num |-> 0, den |-> 1, str |-> s]

RECURSIVE GCD(_, _)
GCD(a, b) == IF b = 0 THEN a ELSE GCD(b, a % b)

\* Number.prototype.toString for a non-negative integer
RECURSIVE Digits(_)
Digits(n) == IF n < 10 THEN <<n>> ELSE Digits(n \div 10) \o <<n % 10>>

\* String(v), as the + operator applies it to a non-string operand
ToStr(v) ==
  CASE v.t = "string" -> v.str
    [] v.t = "number" -> Digits(v.num)
    [] OTHER -> <<NonDigit>>          \* "NaN", "undefined", "null"

\* value of a string of decimal digits
RECURSIVE DecimalValue(_)
DecimalValue(s) ==
  IF s = << >> THEN 0
  ELSE 10 * DecimalValue(SubSeq(s, 1, Len(s) - 1)) + s[Len(s)]

\* Number(v), as the arithmetic operators apply it
ToNumber(v) ==
  CASE v.t = "number" -> v
    [] v.t = "null" -> Num(0, 1)
    [] v.t = "string" ->
         IF \A i \in DOMAIN v.str : v.str[i] # NonDigit
         THEN Num(DecimalValue(v.str), 1) ELSE NaN
    [] OTHER -> NaN                   \* undefined, NaN

\* a + b
JSAdd(a, b) ==
  IF a.t = "string" \/ b.t = "string"
  THEN Str(ToStr(a) \o ToStr(b))
  ELSE LET x == ToNumber(a)
           y == ToNumber(b)
       IN IF x.t = "NaN" \/ y.t = "NaN" THEN NaN
          ELSE Num(x.num + y.num, 1)

\* a / n for an array length n; 0 / 0 is NaN
JSDiv(a, n) ==
  LET x == ToNumber(a)
  IN IF x.t = "NaN" THEN NaN
     ELSE IF n = 0 THEN NaN
     ELSE LET g == GCD(x.num, n)
          IN IF x.num = 0 THEN Num(0, 1) ELSE Num(x.num \div g, n \div g)

\* arr.reduce((a, b) => a + b, 0)
RECURSIVE Reduce(_, _)
Reduce(arr, acc) ==
  IF arr = << >> THEN acc ELSE Reduce(Tail(arr), JSAdd(acc, Head(arr)))

MeanWrongDivisor(arr) == JSDiv(Reduce(arr, Num(0, 1)), Len(arr) + 1)
mean(arr) == JSDiv(Reduce(arr, Num(0, 1)), Len(arr))

\* ------------------------------------------------------------------------
\* The record store (data/items.json) and the Aggregator
\* ------------------------------------------------------------------------
\* An element of the parsed array: an object with a price, or JSON null.
Item(p) == [kind |-> "object", price |-> p]
NullItem == [kind |-> "null", price |-> Undefined]

\* What the file holds: no file, text that is not JSON, JSON that is not an
\* array, or an array of elements.
Missing == [kind |-> "missing", items |-> << >>]
Corrupt == [kind |-> "corrupt", items |-> << >>]
NotArray == [kind |-> "notArray", items |-> << >>]
Records(items) == [kind |-> "array", items |-> items]

\* JS null in the Cache Slot, and the Stats object
NullStats == [total |-> -1, averagePrice |-> JSNull]
Stats(n, avg) == [total |-> n, averagePrice |-> avg]

Returned(s) == [ok |-> TRUE, stats |-> s, err |-> "none"]
Thrown(e) == [ok |-> FALSE, stats |-> NullStats, err |-> e]

\* line 28: items.map(item => item.price)
Prices(items) == [i \in DOMAIN items |-> items[i].price]

statsOfItemsNoEmptyCheck(items) ==
  IF \E i \in DOMAIN items : items[i].kind = "null"
  THEN Thrown("TypeError")
  ELSE Returned(Stats(Len(items), mean(Prices(items))))
\* lines 24-33 of calculateStats, on the parsed array
statsOfItems(items) ==
  IF Len(items) = 0
  THEN Returned(Stats(0, Num(0, 1)))
  ELSE IF \E i \in DOMAIN items : items[i].kind = "null"
       THEN Thrown("TypeError")       \* item.price of null
       ELSE Returned(Stats(Len(items), mean(Prices(items))))

\* calculateStats, given what fs.readFile finds
calculateStats(file) ==
  CASE file.kind = "missing" -> Thrown("ENOENT")
    [] file.kind = "corrupt" -> Thrown("SyntaxError")
    [] file.kind = "notArray" -> Thrown("TypeError")  \* items.map is not a function
    [] OTHER -> statsOfItems(file.items)

\* ------------------------------------------------------------------------
\* Input domains
\* ------------------------------------------------------------------------
RECURSIVE SeqsUpTo(_, _)
SeqsUpTo(S, n) ==
  IF n = 0 THEN {<< >>}
  ELSE LET shorter == SeqsUpTo(S, n - 1)
       IN shorter \cup {Append(s, x) : s \in {t \in shorter : Len(t) = n - 1}, x \in S}

\* store contents of the cache model
StoreValues ==
  {Missing, Corrupt, Records(<< >>), Records(<<Item(Num(10, 1))>>)}

\* inputs of the Aggregator taken alone
AggPrices == {Num(10, 1), Num(20, 1), Num(30, 1), Undefined, JSNull,
              Str(<<5>>), Str(<<NonDigit>>)}
AggElements == {Item(p) : p \in AggPrices} \cup {NullItem}
AggInputs ==
  {Missing, Corrupt, NotArray} \cup {Records(s) : s \in SeqsUpTo(AggElements, MaxAggLen)}

EventTypes == {"change", "rename"}

\* ------------------------------------------------------------------------
\* State
\* ------------------------------------------------------------------------
VARIABLES
  store,          \* contents of data/items.json
  statsCache,     \* stats.js: let statsCache
  debounceTimer,  \* stats.js: let debounceTimer (0 is null, else a handle)
  timers,         \* active timeouts: handle -> milliseconds until due
  nextHandle,     \* handle the next setTimeout returns
  watching,       \* fs.watch listener registered
  events,         \* watcher events emitted and not yet delivered
  runs,           \* calculateStats calls of the timer callback, in flight
  initPc,         \* position of initStatsCache
  initRaw,        \* what the initial readFile found
  resp,           \* answer of GET /api/stats, when the last step was that request
  \* history, for stating the properties
  sinceChange,    \* ms since the last 'change' notification (Beyond: more than Delay)
  burstRuns,      \* runs started since the current burst of notifications began
  lastRunAt,      \* sinceChange when the last run started
  runCount,       \* runs the timer callback started
  spaced,         \* every 'change' notification came more than Delay after the previous
  populated,      \* some Aggregator run has filled the Cache Slot
  lastGood,       \* result of the last successful commit
  initRun,        \* outcome of the initial Aggregator run
  burstLen,       \* 'change' notifications of the current burst
  lastOutcome,    \* outcome of the last run of the timer callback that settled
  recovery,       \* progress from a failed recompute to the next successful one
  silent,         \* the store was changed after the initial read with no 'change' event sent
  announced,      \* the store was changed while the watcher was registered
  settledNotified, \* the last run that settled had seen a 'change' notification in flight
  everFailed,     \* some run of the timer callback failed
  \* the Aggregator taken alone
  aggIn, aggOut,
  \* POST /api/items
  posts,          \* the requests: position, what was read, the item, the answer
  now,            \* Date.now()
  \* GET /api/items
  query,          \* req.query: q, page, pageSize, limit
  listResp,       \* the answer
  \* the frontend: DataProvider state and the Items page
  ctxItems,       \* items of DataProvider
  pagination,
  loading,
  mounted,        \* the Items page is mounted
  currentPage,
  searchTerm,
  fetches         \* the fetchItems calls made so far

cacheVars == <<store, statsCache, debounceTimer, timers, nextHandle, watching,
               events, runs, initPc, initRaw, resp>>
histVars == <<sinceChange, burstRuns, lastRunAt, runCount, spaced, populated,
              lastGood, initRun, burstLen, lastOutcome, recovery>>
raceVars == <<silent, announced, settledNotified, everFailed>>
aggVars == <<aggIn, aggOut>>
cacheVars_noStore == <<statsCache, debounceTimer, timers, nextHandle, watching,
                       events, runs, initPc, initRaw, resp>>
cacheVars_noTimers == <<store, statsCache, debounceTimer, nextHandle, watching,
                       events, runs, initPc, initRaw>>
itemsVars == <<posts, now>>
pageVars == <<query, listResp>>
uiVars == <<ctxItems, pagination, loading, mounted, currentPage, searchTerm, fetches>>
restVars == <<itemsVars, pageVars, uiVars>>
vars == <<cacheVars, histVars, raceVars, aggVars, restVars>>

NoRaw == Missing
NoResp == [status |-> 0, body |-> NullStats]
NotComputed == Thrown("notComputed")

\* ------------------------------------------------------------------------
\* POST /api/items: values
\* ------------------------------------------------------------------------
Requests == 1 .. MaxPosts
SeedId == 1            \* id of a record that was in the file before any POST
StartTime == SeedId + 1
SeedBody == 0          \* its fields; the body of request r is r

\* a stored record: the id and the remaining fields
Record(id, body) == [id |-> id, body |-> body]
NoItem == Record(0, 0)
NoPost == [pc |-> "idle", read |-> << >>, data |-> << >>, item |-> NoItem,
           status |-> 0, body |-> "none", readFailed |-> FALSE,
           wrote |-> FALSE, overlapped |-> FALSE]

ItemsIdle ==
  /\ posts = [r \in Requests |-> NoPost]
  /\ now = StartTime

\* ------------------------------------------------------------------------
\* GET /api/items: values
\* ------------------------------------------------------------------------
NoQuery == [q |-> Undefined, page |-> Undefined, pageSize |-> Undefined,
            limit |-> Undefined]
NotAsked == [status |-> 0, kind |-> "none", items |-> << >>]

PageIdle ==
  /\ query = NoQuery
  /\ listResp = NotAsked

\* ------------------------------------------------------------------------
\* The frontend: values
\* ------------------------------------------------------------------------
NoPaginationYet == [totalPages |-> 0]      \* pagination = null
PaginationOf(n) == [totalPages |-> n]

\* DataContext.js lines 11-13 and Items.js lines 10-11, before Items mounts
UiIdle ==
  /\ ctxItems = << >>
  /\ pagination = NoPaginationYet
  /\ loading = FALSE
  /\ mounted = FALSE
  /\ currentPage = 1
  /\ searchTerm = ""
  /\ fetches = << >>

\* the cache before initStatsCache is called
CacheStart ==
  /\ statsCache = NullStats
  /\ debounceTimer = 0
  /\ timers = << >>
  /\ nextHandle = 1
  /\ watching = FALSE
  /\ events = << >>
  /\ runs = << >>
  /\ initPc = "notStarted"
  /\ initRaw = NoRaw
  /\ resp = NoResp
  /\ sinceChange = Beyond
  /\ burstRuns = 0
  /\ lastRunAt = 0
  /\ runCount = 0
  /\ spaced = TRUE
  /\ populated = FALSE
  /\ lastGood = NullStats
  /\ initRun = "none"
  /\ burstLen = 0
  /\ lastOutcome = "none"
  /\ recovery = "none"
  /\ silent = FALSE
  /\ announced = FALSE
  /\ settledNotified = FALSE
  /\ everFailed = FALSE

AggIdle ==
  /\ aggIn = Missing
  /\ aggOut = NotComputed

Init ==
  /\ store \in StoreValues
  /\ CacheStart
  /\ AggIdle
  /\ ItemsIdle
  /\ PageIdle
  /\ UiIdle

\* ------------------------------------------------------------------------
\* Helpers of the handlers
\* ------------------------------------------------------------------------
Restrict(f, D) == [x \in D |-> f[x]]
RemoveAt(s, i) == SubSeq(s, 1, i - 1) \o SubSeq(s, i + 1, Len(s))
MinOf(S) == CHOOSE x \in S : \A y \in S : x <= y

\* clearTimeout(h): a no-op for null and for a timer that already ran
NoClearTimeout(ts, h) == ts
clearTimeout(ts, h) == Restrict(ts, DOMAIN ts \ {h})

\* setTimeout(cb, ms) returning handle h
setTimeout(ts, h, ms) == [x \in DOMAIN ts \cup {h} |-> IF x = h THEN ms ELSE ts[x]]

\* lines 54-62: the debounce: cancel the timer debounceTimer names (old) and
\* start a new one of Delay ms, with handle h
DebounceOnce(ts, old, h) == IF old = 0 THEN setTimeout(ts, h, Delay) ELSE ts
debounce(ts, old, h) == setTimeout(clearTimeout(ts, old), h, Delay)

\* line 52: if (eventType === 'change')
IsRename(eventType) == eventType = "rename"
IsChange(eventType) == eventType = "change"

\* lines 54-55: the listener cancels the pending timer only; the runs already
\* started stay in flight (each is marked as having seen the notification)
CancelRuns(rs) == << >>
runsAfterChange(rs) == [i \in DOMAIN rs |-> [rs[i] EXCEPT !.notified = TRUE]]

\* line 46: the await throws when the initial run failed, so line 51
\* (fs.watch) is reached only after a successful run
ReachesWatchAlways(r) == TRUE
ReachesWatch(r) == r.ok

\* lines 59-61: the callback catches the error of its run; the listener and
\* the process stay
WatcherCrashes(w, r) == w /\ r.ok
watcherAfter(w, r) == w

\* lines 57-61: what the Cache Slot becomes when the timer callback's
\* calculateStats settles with result r
DropOnFailure(cache, r) == IF r.ok THEN r.stats ELSE NullStats
TornCommit(cache, r) ==
  IF r.ok THEN [cache EXCEPT !.total = r.stats.total] ELSE cache
commit(cache, r) == IF r.ok THEN r.stats ELSE cache

\* stats.js getStats
getStats == statsCache

\* routes/stats.js GET / with the application's error handler
NotReadyAsZero(stats) ==
  IF stats = NullStats
  THEN [status |-> OK, body |-> Stats(0, Num(0, 1))]
  ELSE [status |-> OK, body |-> stats]
statsRoute(stats) ==
  IF stats = NullStats
  THEN [status |-> ServiceUnavailable, body |-> NullStats]
  ELSE [status |-> OK, body |-> stats]

\* ------------------------------------------------------------------------
\* The external store changes
\* ------------------------------------------------------------------------
\* Something rewrites, replaces or removes data/items.json.  A registered
\* watcher is sent one event for it.
Mutate(data, eventType) ==
  /\ store' = data
  /\ IF watching
     THEN /\ Len(events) < MaxEvents
          /\ events' = Append(events, eventType)
     ELSE events' = events
  /\ silent' = (silent \/ (/\ data # store
                            /\ initPc \notin {"notStarted", "reading"}
                            /\ ~(watching /\ IsChange(eventType))))
  /\ announced' = (announced \/ watching)
  /\ resp' = NoResp
  /\ UNCHANGED <<statsCache, debounceTimer, timers, nextHandle, watching, runs,
                 initPc, initRaw, histVars, settledNotified, everFailed, aggVars, restVars>>

\* ------------------------------------------------------------------------
\* initStatsCache
\* ------------------------------------------------------------------------
\* line 46: calculateStats() is called and its readFile is issued
InitStart ==
  /\ initPc = "notStarted"
  /\ initPc' = "reading"
  /\ resp' = NoResp
  /\ UNCHANGED <<store, statsCache, debounceTimer, timers, nextHandle, watching,
                 events, runs, initRaw, histVars, raceVars, aggVars, restVars>>

\* the readFile of the initial run reads the file
InitRead ==
  /\ initPc = "reading"
  /\ initPc' = "read"
  /\ initRaw' = store
  /\ resp' = NoResp
  /\ UNCHANGED <<store, statsCache, debounceTimer, timers, nextHandle, watching,
                 events, runs, histVars, raceVars, aggVars, restVars>>

\* lines 46-70: the initial run settles; on success the slot is filled and
\* fs.watch registers the listener (fs.watch throws when the file is gone)
InitComplete ==
  /\ initPc = "read"
  /\ LET r == calculateStats(initRaw)
         watched == ReachesWatch(r) /\ store.kind # "missing"
     IN /\ statsCache' = IF r.ok THEN r.stats ELSE statsCache
        /\ watching' = watched
        /\ initPc' = IF r.ok /\ watched THEN "resolved" ELSE "rejected"
        /\ initRun' = IF r.ok THEN "ok" ELSE "failed"
        /\ populated' = r.ok
        /\ lastGood' = IF r.ok THEN r.stats ELSE lastGood
  /\ resp' = NoResp
  /\ UNCHANGED <<store, debounceTimer, timers, nextHandle, events, runs, initRaw,
                 sinceChange, burstRuns, lastRunAt, runCount, spaced,
                 burstLen, lastOutcome, recovery, raceVars, aggVars, restVars>>

\* ------------------------------------------------------------------------
\* The fs.watch listener and the debounce timer
\* ------------------------------------------------------------------------
\* lines 51-64: the listener is called with the oldest undelivered event
WatchEvent ==
  /\ watching
  /\ events # << >>
  /\ events' = Tail(events)
  /\ IF IsChange(Head(events))
     THEN /\ nextHandle <= MaxNotifs
          /\ timers' = debounce(timers, debounceTimer, nextHandle)
          /\ debounceTimer' = nextHandle
          /\ nextHandle' = nextHandle + 1
          /\ sinceChange' = 0
          /\ burstRuns' = IF sinceChange < Delay THEN burstRuns ELSE 0
          /\ spaced' = (spaced /\ sinceChange = Beyond)
          /\ burstLen' = IF sinceChange < Delay THEN burstLen + 1 ELSE 1
          /\ recovery' = IF recovery = "failed" THEN "scheduled" ELSE recovery
          /\ runs' = runsAfterChange(runs)
     ELSE UNCHANGED <<timers, debounceTimer, nextHandle, sinceChange, burstRuns,
                      spaced, burstLen, recovery, runs>>
  /\ resp' = NoResp
  /\ UNCHANGED <<store, statsCache, watching, initPc, initRaw, lastRunAt,
                 runCount, populated, lastGood, initRun, lastOutcome, raceVars,
                 aggVars, restVars>>

\* line 55-57: a due timer runs its callback, which calls calculateStats()
TimerFire(h) ==
  /\ h \in DOMAIN timers
  /\ timers[h] = 0
  /\ timers' = Restrict(timers, DOMAIN timers \ {h})
  /\ runs' = Append(runs, [phase |-> "reading", raw |-> NoRaw, notified |-> FALSE])
  /\ runCount' = runCount + 1
  /\ burstRuns' = burstRuns + 1
  /\ lastRunAt' = sinceChange
  /\ recovery' = IF recovery = "scheduled" THEN "running" ELSE recovery
  /\ resp' = NoResp
  /\ UNCHANGED <<store, statsCache, debounceTimer, nextHandle, watching, events,
                 initPc, initRaw, sinceChange, spaced, populated, lastGood,
                 initRun, burstLen, lastOutcome, raceVars, aggVars, restVars>>

\* line 21: the readFile of run i reads the file
RunRead(i) ==
  /\ i \in DOMAIN runs
  /\ runs[i].phase = "reading"
  /\ runs' = [runs EXCEPT ![i] = [@ EXCEPT !.phase = "read", !.raw = store]]
  /\ resp' = NoResp
  /\ UNCHANGED <<store, statsCache, debounceTimer, timers, nextHandle, watching,
                 events, initPc, initRaw, histVars, raceVars, aggVars, restVars>>

\* lines 22-37 and 57-61: run i settles and the callback commits its result
\* or logs its error
RunComplete(i) ==
  /\ i \in DOMAIN runs
  /\ runs[i].phase = "read"
  /\ LET r == calculateStats(runs[i].raw)
     IN /\ statsCache' = commit(statsCache, r)
        /\ lastGood' = IF r.ok THEN r.stats ELSE lastGood
        /\ populated' = (populated \/ r.ok)
        /\ watching' = watcherAfter(watching, r)
        /\ lastOutcome' = IF r.ok THEN "ok" ELSE "failed"
        /\ everFailed' = (everFailed \/ ~r.ok)
        /\ recovery' =
             IF ~r.ok
             THEN IF Len(runs) = 1 /\ timers = << >> /\ events = << >>
                  THEN "failed" ELSE recovery
             ELSE IF recovery = "running" THEN "recovered" ELSE recovery
  /\ settledNotified' = runs[i].notified
  /\ runs' = RemoveAt(runs, i)
  /\ resp' = NoResp
  /\ UNCHANGED <<store, debounceTimer, timers, nextHandle, events,
                 initPc, initRaw, sinceChange, burstRuns, lastRunAt,
                 runCount, spaced, initRun, burstLen, silent, announced, aggVars, restVars>>

\* time passes, up to the next due timer
Tick ==
  /\ initPc # "notStarted"
  /\ \A h \in DOMAIN timers : timers[h] > 0
  /\ LET d == MinOf({TickStep} \cup {timers[h] : h \in DOMAIN timers})
     IN /\ timers' = [h \in DOMAIN timers |-> timers[h] - d]
        /\ sinceChange' = IF sinceChange + d > Delay THEN Beyond ELSE sinceChange + d
  /\ sinceChange # Beyond \/ timers # << >>
  /\ resp' = NoResp
  /\ UNCHANGED <<cacheVars_noTimers, burstRuns, lastRunAt, runCount, spaced,
                 populated, lastGood, initRun, burstLen, lastOutcome, recovery,
                 raceVars, aggVars, restVars>>

\* ------------------------------------------------------------------------
\* GET /api/stats
\* ------------------------------------------------------------------------
StatsRoute ==
  /\ resp' = statsRoute(getStats)
  /\ UNCHANGED <<store, statsCache, debounceTimer, timers, nextHandle, watching,
                 events, runs, initPc, initRaw, sinceChange, burstRuns, lastRunAt,
                 runCount, spaced, populated, lastGood, initRun, burstLen,
                 lastOutcome, recovery, raceVars, aggVars, restVars>>

Next ==
  \/ \E data \in StoreValues, e \in EventTypes : Mutate(data, e)
  \/ InitStart
  \/ InitRead
  \/ InitComplete
  \/ WatchEvent
  \/ \E h \in DOMAIN timers : TimerFire(h)
  \/ \E i \in DOMAIN runs : RunRead(i)
  \/ \E i \in DOMAIN runs : RunComplete(i)
  \/ Tick
  \/ StatsRoute

Spec == Init /\ [][Next]_vars

\* ------------------------------------------------------------------------
\* The Aggregator taken alone: calculateStats applied to every input
\* ------------------------------------------------------------------------
InitAgg ==
  /\ store = Missing
  /\ CacheStart
  /\ aggIn \in AggInputs
  /\ aggOut = NotComputed
  /\ ItemsIdle
  /\ PageIdle
  /\ UiIdle

Compute ==
  /\ aggOut = NotComputed
  /\ aggOut' = calculateStats(aggIn)
  /\ UNCHANGED <<aggIn, cacheVars, histVars, raceVars, restVars>>

NextAgg == Compute

SpecAgg == InitAgg /\ [][NextAgg]_vars

\* ------------------------------------------------------------------------
\* POST /api/items (routes/items.js): read the file, push, write, answer
\* ------------------------------------------------------------------------
Created == 201
ServerError == 500

ItemStoreValues ==
  {Missing, Corrupt, NotArray, Records(<< >>), Records(<<Record(SeedId, SeedBody)>>)}

\* readData() as the POST handler uses it: the array it can push to, or the
\* exception (readFile rejects, JSON.parse throws, data.push is not a function)
ReadOrEmpty(file) ==
  IF file.kind = "array" THEN [ok |-> TRUE, data |-> file.items]
  ELSE [ok |-> TRUE, data |-> << >>]
readData(file) ==
  IF file.kind = "array" THEN [ok |-> TRUE, data |-> file.items]
  ELSE [ok |-> FALSE, data |-> << >>]

\* lines 88-89: item.id = Date.now(); data.push(item)
Unshift(data, body, t) == <<Record(t, body)>> \o data
push(data, body, t) == Append(data, Record(t, body))

InFlight(r) == posts[r].pc \in {"reading", "writing", "written"}

InitItems ==
  /\ store \in ItemStoreValues
  /\ CacheStart
  /\ AggIdle
  /\ ItemsIdle
  /\ PageIdle
  /\ UiIdle

\* the request arrives: item = req.body and readData() is called
PostStart(r) ==
  /\ posts[r].pc = "idle"
  /\ LET others == {q \in Requests \ {r} : InFlight(q)}
     IN posts' = [q \in Requests |->
                    IF q = r THEN [posts[r] EXCEPT !.pc = "reading",
                                                   !.overlapped = others # {}]
                    ELSE IF q \in others THEN [posts[q] EXCEPT !.overlapped = TRUE]
                    ELSE posts[q]]
  /\ UNCHANGED <<now, cacheVars, histVars, raceVars, aggVars, pageVars, uiVars>>

\* readData() settles: on success the id is taken, the item pushed and
\* writeData(data) called; on failure the catch passes the error on (500)
PostRead(r) ==
  /\ posts[r].pc = "reading"
  /\ LET got == readData(store)
     IN posts' = [posts EXCEPT ![r] =
          IF got.ok
          THEN [@ EXCEPT !.pc = "writing", !.read = got.data,
                         !.item = Record(now, r),
                         !.data = push(got.data, r, now)]
          ELSE [@ EXCEPT !.pc = "done", !.readFailed = TRUE,
                         !.status = ServerError, !.body = "error"]]
  /\ UNCHANGED <<now, cacheVars, histVars, raceVars, aggVars, pageVars, uiVars>>

\* fs.writeFile replaces the file with the pushed array
PostWrite(r) ==
  /\ posts[r].pc = "writing"
  /\ store' = Records(posts[r].data)
  /\ posts' = [posts EXCEPT ![r] = [@ EXCEPT !.pc = "written", !.wrote = TRUE]]
  /\ UNCHANGED <<now, cacheVars_noStore, histVars, raceVars, aggVars, pageVars, uiVars>>

\* fs.writeFile rejects: the catch passes the error on (500)
PostWriteFails(r) ==
  /\ posts[r].pc = "writing"
  /\ posts' = [posts EXCEPT ![r] = [@ EXCEPT !.pc = "done",
                                              !.status = ServerError,
                                              !.body = "error"]]
  /\ UNCHANGED <<now, cacheVars, histVars, raceVars, aggVars, pageVars, uiVars>>

\* line 91: res.status(201).json(item)
PostRespond(r) ==
  /\ posts[r].pc = "written"
  /\ posts' = [posts EXCEPT ![r] = [@ EXCEPT !.pc = "done", !.status = Created,
                                              !.body = "item"]]
  /\ UNCHANGED <<now, cacheVars, histVars, raceVars, aggVars, pageVars, uiVars>>

\* a millisecond passes
ClockTick ==
  /\ now < StartTime + MaxClock
  /\ now' = now + 1
  /\ UNCHANGED <<posts, cacheVars, histVars, raceVars, aggVars, pageVars, uiVars>>

NextItems ==
  \/ \E r \in Requests : PostStart(r)
  \/ \E r \in Requests : PostRead(r)
  \/ \E r \in Requests : PostWrite(r)
  \/ \E r \in Requests : PostWriteFails(r)
  \/ \E r \in Requests : PostRespond(r)
  \/ ClockTick

SpecItems == InitItems /\ [][NextItems]_vars

\* ------------------------------------------------------------------------
\* GET /api/items (routes/items.js): filter, paginate, answer
\* ------------------------------------------------------------------------
DefaultPageSize == 10
DefaultPage == 1
Minus == 11            \* the character "-" of a query string

\* numbers beyond the integers that the page arithmetic can produce
NegZero == [t |-> "number", num |-> 0, den |-> -1, str |-> << >>]
Infinity == [t |-> "Infinity", num |-> 1, den |-> 0, str |-> << >>]
NegInfinity == [t |-> "Infinity", num |-> -1, den |-> 0, str |-> << >>]

RECURSIVE LeadingDigits(_)
LeadingDigits(s) ==
  IF s = << >> THEN << >>
  ELSE IF Head(s) \in 0 .. 9 THEN <<Head(s)>> \o LeadingDigits(Tail(s))
  ELSE << >>

\* parseInt(v) of a query parameter: optional sign, then the leading digits
parseInt(v) ==
  LET neg == v.str # << >> /\ Head(v.str) = Minus
      digs == LeadingDigits(IF neg THEN Tail(v.str) ELSE v.str)
  IN IF digs = << >> THEN NaN
     ELSE IF ~neg THEN Num(DecimalValue(digs), 1)
     ELSE IF DecimalValue(digs) = 0 THEN NegZero
     ELSE Num(-DecimalValue(digs), 1)

\* truthiness of a query parameter: undefined and "" are falsy
Truthy(v) == v.t = "string" /\ v.str # << >>

\* Math.ceil(total / per) for an array length total
ceilOfQuotient(total, per) ==
  IF per.t = "NaN" THEN NaN
  ELSE IF per = NegZero THEN (IF total = 0 THEN NaN ELSE NegInfinity)
  ELSE IF per.num = 0 THEN (IF total = 0 THEN NaN ELSE Infinity)
  ELSE IF per.num > 0 THEN Num((total + per.num - 1) \div per.num, 1)
  ELSE IF total \div (-per.num) = 0 THEN NegZero
  ELSE Num(-(total \div (-per.num)), 1)

\* (currentPage - 1) * itemsPerPage
offsetOf(cp, per) ==
  IF cp.t = "NaN" \/ per.t = "NaN" THEN NaN
  ELSE Num((cp.num - 1) * per.num, 1)

\* a < b
JSLess(a, b) ==
  IF a.t = "NaN" \/ b.t = "NaN" THEN FALSE
  ELSE IF a.t = "Infinity" THEN a.num < 0 /\ ~(b.t = "Infinity" /\ b.num < 0)
  ELSE IF b.t = "Infinity" THEN b.num > 0
  ELSE a.num < b.num

\* Array.prototype.slice: NaN counts as 0, a negative index counts from the end
RelativeIndex(k, len) ==
  IF k.t = "NaN" THEN 0
  ELSE IF k.num < 0 THEN (IF len + k.num < 0 THEN 0 ELSE len + k.num)
  ELSE IF k.num > len THEN len ELSE k.num
slice(arr, start, end) ==
  LET from == RelativeIndex(start, Len(arr))
      to == RelativeIndex(end, Len(arr))
  IN IF from < to THEN SubSeq(arr, from + 1, to) ELSE << >>

\* JSON.stringify of a number: NaN and the infinities become null, -0 is 0
toJSON(v) == IF v.t = "number" THEN Num(v.num, 1) ELSE JSNull

\* strings of letters
Lower(c) == IF c = "A" THEN "a" ELSE c
toLowerCase(str) == [i \in DOMAIN str |-> Lower(str[i])]
includes(str, t) ==
  \E i \in 0 .. (Len(str) - Len(t)) : SubSeq(str, i + 1, i + Len(t)) = t

\* lines 28-31: the filter callback; it throws on an item without a name, and
\* on one without a category whose name does not match
Matches(item, term) ==
  \/ includes(toLowerCase(item.name.str), term)
  \/ includes(toLowerCase(item.category.str), term)
FilterThrows(items, term) ==
  \E i \in DOMAIN items :
    \/ items[i].name.t = "undefined"
    \/ /\ ~includes(toLowerCase(items[i].name.str), term)
       /\ items[i].category.t = "undefined"
filter(items, term) ==
  LET Test(item) == Matches(item, term)
  IN SelectSeq(items, Test)

NoPagination == [currentPage |-> JSNull, pageSize |-> JSNull, totalItems |-> JSNull,
                 totalPages |-> JSNull, hasNextPage |-> FALSE,
                 hasPreviousPage |-> FALSE]
ErrorResp == [status |-> ServerError, kind |-> "error", items |-> << >>,
              pagination |-> NoPagination]
ArrayResp(items) == [status |-> OK, kind |-> "array", items |-> items,
                     pagination |-> NoPagination]
PageResp(items, pg) == [status |-> OK, kind |-> "page", items |-> items,
                        pagination |-> pg]

\* lines 23-32: results after the optional search
SearchOn(qy) == Truthy(qy.q)
resultsOf(items, qy) ==
  IF SearchOn(qy) THEN filter(items, toLowerCase(qy.q.str)) ELSE items

\* the handler of GET /api/items, given what fs.readFile finds
getItems(file, qy) ==
  IF file.kind # "array" THEN ErrorResp
  ELSE IF SearchOn(qy) /\ FilterThrows(file.items, toLowerCase(qy.q.str)) THEN ErrorResp
  ELSE
    LET results == resultsOf(file.items, qy)
        total == Len(results)
        itemsPerPage == IF Truthy(qy.pageSize) THEN parseInt(qy.pageSize)
                        ELSE Num(DefaultPageSize, 1)
        thePage == IF Truthy(qy.page) THEN parseInt(qy.page)
                       ELSE Num(DefaultPage, 1)
        totalPages == ceilOfQuotient(total, itemsPerPage)
        offset == offsetOf(thePage, itemsPerPage)
        paginatedResults == slice(results, offset, JSAdd(offset, itemsPerPage))
    IN IF Truthy(qy.limit) /\ ~Truthy(qy.page)
       THEN ArrayResp(slice(results, Num(0, 1), parseInt(qy.limit)))
       ELSE PageResp(paginatedResults,
                     [currentPage |-> toJSON(thePage),
                      pageSize |-> toJSON(itemsPerPage),
                      totalItems |-> Num(total, 1),
                      totalPages |-> toJSON(totalPages),
                      hasNextPage |-> JSLess(thePage, totalPages),
                      hasPreviousPage |-> JSLess(Num(1, 1), thePage)])

\* input domains
Named(name, category) == [name |-> name, category |-> category]
PageElements ==
  {Named(Str(<<"A", "b">>), Str(<<"c">>)),
   Named(Str(<<"b">>), Str(<<"c", "A">>)),
   Named(Undefined, Undefined)}
Numbered(elems) ==
  [i \in DOMAIN elems |-> [id |-> i, name |-> elems[i].name,
                           category |-> elems[i].category]]
PageStores ==
  {Missing} \cup {Records(Numbered(elems)) : elems \in SeqsUpTo(PageElements, MaxPageItems)}
QValues == {Undefined, Str(<< >>), Str(<<"A">>), Str(<<"z">>)}
PageValues == {Undefined, Str(<<1>>), Str(<<2>>), Str(<<0>>), Str(<<Minus, 1>>),
               Str(<<NonDigit>>)}
PageSizeValues == {Undefined, Str(<<1>>), Str(<<2>>), Str(<<0>>), Str(<<Minus, 1>>),
                   Str(<<Minus, 0>>), Str(<<NonDigit>>)}
LimitValues == {Undefined, Str(<<1>>)}
Queries ==
  {[q |-> q, page |-> pg, pageSize |-> sz, limit |-> lim] :
     q \in QValues, pg \in PageValues, sz \in PageSizeValues, lim \in LimitValues}

InitPage ==
  /\ store \in PageStores
  /\ CacheStart
  /\ AggIdle
  /\ ItemsIdle
  /\ query \in Queries
  /\ listResp = NotAsked
  /\ UiIdle

GetItems ==
  /\ listResp = NotAsked
  /\ listResp' = getItems(store, query)
  /\ UNCHANGED <<query, cacheVars, histVars, raceVars, aggVars, itemsVars, uiVars>>

NextPage == GetItems

SpecPage == InitPage /\ [][NextPage]_vars

\* ------------------------------------------------------------------------
\* The frontend: fetchItems of DataProvider, called by the effect of Items
\* ------------------------------------------------------------------------
\* bodies that res.json() can resolve to
Paginated(its, n) == [shape |-> "paginated", its |-> its, arrayItems |-> TRUE,
                      totalPages |-> n]
PaginatedNoArray == [shape |-> "paginated", its |-> << >>, arrayItems |-> FALSE,
                     totalPages |-> 1]
Legacy(its) == [shape |-> "legacy", its |-> its, arrayItems |-> TRUE, totalPages |-> 0]
OtherJson == [shape |-> "other", its |-> << >>, arrayItems |-> FALSE, totalPages |-> 0]
Payloads ==
  {Paginated(<<1>>, MaxPages), Paginated(<< >>, 1), PaginatedNoArray, Legacy(<<1>>), OtherJson}
Terms == {"", "a"}

NewFetch == [phase |-> "fetching", aborted |-> FALSE, outcome |-> "pending"]
Pending(f) == f.phase # "done"

\* lines 38-49: what a parsed body sets
afterJson(json) ==
  IF json.shape = "paginated"
  THEN [items |-> IF json.arrayItems THEN json.its ELSE << >>,
        pagination |-> PaginationOf(json.totalPages)]
  ELSE IF json.shape = "legacy"
  THEN [items |-> json.its, pagination |-> NoPaginationYet]
  ELSE [items |-> << >>, pagination |-> NoPaginationYet]

\* lines 50-53: what the catch sets
KeepOnError(cur) == cur
afterError(cur) == [items |-> << >>, pagination |-> NoPaginationYet]

\* Items.js lines 35-37: the cleanup aborts the controller of the last effect
abortLatest(fs) ==
  IF fs = << >> THEN fs
  ELSE [fs EXCEPT ![Len(fs)].aborted = @ \/ Pending(fs[Len(fs)])]

\* Items.js line 51 and line 124
View(isLoading, its) ==
  IF isLoading /\ its = << >> THEN "Loading..."
  ELSE IF its = << >> THEN "No items found."
  ELSE "list"

InitUI ==
  /\ store = Missing
  /\ CacheStart
  /\ AggIdle
  /\ ItemsIdle
  /\ PageIdle
  /\ UiIdle

\* Items mounts: the effect runs and calls fetchItems, which sets loading
Mount ==
  /\ ~mounted
  /\ Len(fetches) < MaxFetches
  /\ mounted' = TRUE
  /\ currentPage' = 1
  /\ searchTerm' = ""
  /\ fetches' = Append(fetches, NewFetch)
  /\ loading' = TRUE
  /\ UNCHANGED <<ctxItems, pagination, cacheVars, histVars, raceVars, aggVars,
                 itemsVars, pageVars>>

\* Items unmounts: the cleanup aborts
Unmount ==
  /\ mounted
  /\ mounted' = FALSE
  /\ fetches' = abortLatest(fetches)
  /\ UNCHANGED <<ctxItems, pagination, loading, currentPage, searchTerm, cacheVars,
                 histVars, raceVars, aggVars, itemsVars, pageVars>>

\* a page button is clicked (rendered with more than one page, enabled when
\* not loading): the cleanup aborts and the effect calls fetchItems again
handlePageChange(newPage) ==
  /\ mounted
  /\ View(loading, ctxItems) # "Loading..."
  /\ ~loading
  /\ pagination.totalPages > 1
  /\ newPage \in 1 .. pagination.totalPages
  /\ newPage # currentPage
  /\ Len(fetches) < MaxFetches
  /\ currentPage' = newPage
  /\ fetches' = Append(abortLatest(fetches), NewFetch)
  /\ loading' = TRUE
  /\ UNCHANGED <<ctxItems, pagination, mounted, searchTerm, cacheVars, histVars,
                 raceVars, aggVars, itemsVars, pageVars>>

\* the search form is submitted (or cleared) with a new term or away from
\* page 1: same cleanup and effect
handleSearch(term) ==
  /\ mounted
  /\ View(loading, ctxItems) # "Loading..."
  /\ term # searchTerm \/ currentPage # 1
  /\ Len(fetches) < MaxFetches
  /\ searchTerm' = term
  /\ currentPage' = 1
  /\ fetches' = Append(abortLatest(fetches), NewFetch)
  /\ loading' = TRUE
  /\ UNCHANGED <<ctxItems, pagination, mounted, cacheVars, histVars, raceVars,
                 aggVars, itemsVars, pageVars>>

\* catch and finally of fetchItems, for the call i that ends with outcome o
Caught(i, o) ==
  /\ LET set == afterError([items |-> ctxItems, pagination |-> pagination])
     IN /\ ctxItems' = set.items
        /\ pagination' = set.pagination
  /\ loading' = FALSE
  /\ fetches' = [fetches EXCEPT ![i] = [@ EXCEPT !.phase = "done", !.outcome = o]]
  /\ UNCHANGED <<mounted, currentPage, searchTerm, cacheVars, histVars, raceVars,
                 aggVars, itemsVars, pageVars>>

\* fetch() rejects: the network failed
FetchRejects(i) ==
  /\ fetches[i].phase = "fetching"
  /\ ~fetches[i].aborted
  /\ Caught(i, "networkError")

\* fetch() resolves: a non-OK status throws, an OK one goes on to res.json()
FetchResolves(i, ok) ==
  /\ fetches[i].phase = "fetching"
  /\ ~fetches[i].aborted
  /\ IF ok
     THEN /\ fetches' = [fetches EXCEPT ![i].phase = "json"]
          /\ UNCHANGED <<ctxItems, pagination, loading, mounted, currentPage,
                         searchTerm, cacheVars, histVars, raceVars, aggVars,
                         itemsVars, pageVars>>
     ELSE Caught(i, "httpError")

\* res.json() resolves
JsonResolves(i, json) ==
  /\ fetches[i].phase = "json"
  /\ ~fetches[i].aborted
  /\ ctxItems' = afterJson(json).items
  /\ pagination' = afterJson(json).pagination
  /\ loading' = FALSE
  /\ fetches' = [fetches EXCEPT ![i] = [@ EXCEPT !.phase = "done", !.outcome = "ok"]]
  /\ UNCHANGED <<mounted, currentPage, searchTerm, cacheVars, histVars, raceVars,
                 aggVars, itemsVars, pageVars>>

\* res.json() rejects: the body is not JSON
JsonRejects(i) ==
  /\ fetches[i].phase = "json"
  /\ ~fetches[i].aborted
  /\ Caught(i, "badJson")

\* the aborted call rejects with AbortError, which the same catch handles
AbortSettles(i) ==
  /\ Pending(fetches[i])
  /\ fetches[i].aborted
  /\ Caught(i, "aborted")

NextUI ==
  \/ Mount
  \/ Unmount
  \/ \E newPage \in 1 .. MaxPages : handlePageChange(newPage)
  \/ \E term \in Terms : handleSearch(term)
  \/ \E i \in DOMAIN fetches : FetchRejects(i)
  \/ \E i \in DOMAIN fetches, ok \in BOOLEAN : FetchResolves(i, ok)
  \/ \E i \in DOMAIN fetches, json \in Payloads : JsonResolves(i, json)
  \/ \E i \in DOMAIN fetches : JsonRejects(i)
  \/ \E i \in DOMAIN fetches : AbortSettles(i)

SpecUI == InitUI /\ [][NextUI]_vars

\* ------------------------------------------------------------------------
\* Properties
\* ------------------------------------------------------------------------
changeCount == nextHandle - 1
Idle == timers = << >>
Delivered == Len(events') < Len(events)
Served == resp' # NoResp
FailedRunSettles(i) ==
  /\ i \in DOMAIN runs
  /\ runs[i].phase = "read"
  /\ ~calculateStats(runs[i].raw).ok
  /\ runs' = RemoveAt(runs, i)
GoodRunSettles(i) ==
  /\ i \in DOMAIN runs
  /\ runs[i].phase = "read"
  /\ calculateStats(runs[i].raw).ok
  /\ runs' = RemoveAt(runs, i)

\* C1: a burst of 'change' notifications, each less than Delay after the
\* previous one, starts no run while the burst lasts and exactly one run once
\* more than Delay has passed since its last notification, and that run
\* started exactly Delay after the last notification.
C1_BurstStartsOneRun ==
  /\ (changeCount >= 1 /\ sinceChange < Delay) => burstRuns = 0
  /\ (changeCount >= 1 /\ sinceChange = Beyond) => burstRuns = 1
  /\ burstRuns <= 1
  /\ burstRuns = 1 => lastRunAt = Delay

C1_Witness ==
  /\ burstLen >= 2
  /\ sinceChange = Beyond
  /\ burstRuns = 1
  /\ lastRunAt = Delay

\* C2: when a run of the timer callback fails, the Cache Slot is left as it
\* was; the slot always holds the last successfully computed value, and that
\* is what every GET is answered with.
C2_FailedRunKeepsCache ==
  /\ [][\A i \in DOMAIN runs : FailedRunSettles(i) => statsCache' = statsCache]_vars
  /\ [](statsCache = lastGood)
  /\ [][Served => resp'.body = lastGood]_vars

C2_Witness ==
  /\ lastOutcome = "failed"
  /\ resp.status = OK
  /\ resp.body = lastGood
  /\ statsCache = lastGood

\* C3: as long as no Aggregator run has filled the Cache Slot, getStats()
\* is null and every answer GET /api/stats has given is 503 without a Stats
\* body.
C3_NotReadyIs503 ==
  ~populated =>
    /\ getStats = NullStats
    /\ resp \in {NoResp, [status |-> ServiceUnavailable, body |-> NullStats]}

C3_Witness ==
  /\ ~populated
  /\ initPc = "rejected"
  /\ resp.status = ServiceUnavailable

\* C4: the Cache Slot only ever changes from one whole committed Stats value
\* to the whole result of a run that settles, so a GET served while a run is
\* in flight is answered with a whole committed value.
C4_WholeValues ==
  /\ [][\/ statsCache' = statsCache
        \/ \E i \in DOMAIN runs :
             GoodRunSettles(i) /\ statsCache' = calculateStats(runs[i].raw).stats
        \/ initPc = "read" /\ statsCache' = calculateStats(initRaw).stats]_vars
  /\ [][(Served /\ runs # << >>) => resp'.body = lastGood]_vars

C4_Witness ==
  /\ runs # << >>
  /\ resp.status = OK
  /\ resp.body = statsCache
  /\ \E i \in DOMAIN runs :
       /\ runs[i].phase = "read"
       /\ calculateStats(runs[i].raw).ok
       /\ calculateStats(runs[i].raw).stats # statsCache

\* C5 as claimed: in Idle, the delivery of any watcher event, whatever its
\* type, schedules a recompute.
C5_AnyEventSchedules ==
  [][(Idle /\ Delivered) => ~Idle']_vars

\* C5 as amended: in Idle, the delivery of a 'change' event schedules a
\* recompute due in Delay; the delivery of an event of another type leaves
\* the trigger Idle.
C5_ChangeEventSchedules ==
  [][(Idle /\ Delivered) =>
       IF Head(events) = "change"
       THEN debounceTimer' \in DOMAIN timers' /\ timers'[debounceTimer'] = Delay
       ELSE Idle']_vars

C5_Witness ==
  /\ changeCount = 1
  /\ sinceChange = 0
  /\ ~Idle
  /\ timers[debounceTimer] = Delay

\* C6: the Aggregator throws whenever a record has no numeric price.
HasNumericPrice(item) == item.kind = "object" /\ item.price.t = "number"

C6_BadPriceFails ==
  (/\ aggOut # NotComputed
   /\ aggIn.kind = "array"
   /\ \E i \in DOMAIN aggIn.items : ~HasNumericPrice(aggIn.items[i]))
  => ~aggOut.ok

\* C7: for N >= 1 records with numeric prices the Aggregator returns
\* total = N and averagePrice = sum / N; for no records it returns
\* {total: 0, averagePrice: 0}; every Stats it returns has averagePrice 0
\* when total is 0.
RECURSIVE SumOfPrices(_)
SumOfPrices(items) ==
  IF items = << >> THEN 0 ELSE Head(items).price.num + SumOfPrices(Tail(items))

C7_TotalAndMean ==
  /\ (/\ aggOut # NotComputed
      /\ aggIn.kind = "array"
      /\ \A i \in DOMAIN aggIn.items : HasNumericPrice(aggIn.items[i]))
     => /\ aggOut.ok
        /\ aggOut.stats.total = Len(aggIn.items)
        /\ aggOut.stats.averagePrice.t = "number"
        /\ aggOut.stats.averagePrice.num * Len(aggIn.items)
             = SumOfPrices(aggIn.items) * aggOut.stats.averagePrice.den
        /\ aggIn.items = << >> => aggOut.stats = Stats(0, Num(0, 1))
  /\ (aggOut.ok /\ aggOut.stats.total = 0) => aggOut.stats.averagePrice = Num(0, 1)

C7_Witness ==
  /\ aggIn = Records(<<Item(Num(10, 1)), Item(Num(20, 1)), Item(Num(30, 1))>>)
  /\ aggOut = Returned(Stats(3, Num(20, 1)))

\* C8: when the initial run fails, initStatsCache rejects, the Cache Slot
\* stays null and there is no watcher, timer or recompute; initStatsCache
\* resolves only in a step that fills the Cache Slot with the result of the
\* initial run.
C8_InitFailsOrPopulates ==
  /\ [](initRun = "failed" =>
          /\ initPc = "rejected"
          /\ statsCache = NullStats
          /\ ~watching
          /\ events = << >>
          /\ timers = << >>
          /\ runs = << >>
          /\ runCount = 0)
  /\ [](initPc = "resolved" => initRun = "ok" /\ populated /\ statsCache # NullStats)
  /\ [][(initPc # "resolved" /\ initPc' = "resolved") =>
          /\ calculateStats(initRaw).ok
          /\ statsCache' = calculateStats(initRaw).stats]_vars

C8_Witness ==
  /\ initRun = "failed"
  /\ initPc = "rejected"
  /\ statsCache = NullStats
  /\ store.kind = "array"

\* C9: when every 'change' notification comes more than Delay after the
\* previous one, each starts its own run: the runs started are the
\* notifications handled, less the one whose timer is still pending.
C9_SpacedNotificationsEachRun ==
  spaced =>
    /\ runCount = changeCount - Cardinality(DOMAIN timers)
    /\ sinceChange = Beyond => runCount = changeCount

C9_Witness ==
  /\ spaced
  /\ changeCount >= 2
  /\ runCount = changeCount

\* C10: a failed run of the timer callback leaves the watcher, its queued
\* events and the timers as they were; afterwards a 'change' notification
\* still schedules a recompute, and a run that succeeds replaces the Cache
\* Slot value with its result.
C10_TriggerSurvivesFailure ==
  /\ [][\A i \in DOMAIN runs : FailedRunSettles(i) =>
          /\ watching' = watching
          /\ events' = events
          /\ timers' = timers
          /\ debounceTimer' = debounceTimer]_vars
  /\ [](lastOutcome = "failed" => watching)
  /\ [][(lastOutcome = "failed" /\ Delivered /\ Head(events) = "change") =>
          debounceTimer' \in DOMAIN timers' /\ timers'[debounceTimer'] = Delay]_vars
  /\ [][\A i \in DOMAIN runs : (lastOutcome = "failed" /\ GoodRunSettles(i)) =>
          statsCache' = calculateStats(runs[i].raw).stats]_vars

C10_Witness ==
  /\ recovery = "recovered"
  /\ lastOutcome = "ok"
  /\ statsCache = lastGood

\* C16: a 'change' notification delivered while runs are in flight leaves
\* every one of them in flight and the Cache Slot as it is, and arms one
\* timer due in Delay; a run that has seen such a notification and succeeds
\* still writes its result to the Cache Slot.
C16_NotificationKeepsRuns ==
  /\ [][(Delivered /\ Head(events) = "change" /\ runs # << >>) =>
          /\ Len(runs') = Len(runs)
          /\ \A i \in DOMAIN runs :
               /\ runs'[i].phase = runs[i].phase
               /\ runs'[i].raw = runs[i].raw
               /\ runs'[i].notified
          /\ statsCache' = statsCache
          /\ DOMAIN timers' = {debounceTimer'}
          /\ timers'[debounceTimer'] = Delay]_vars
  /\ [][\A i \in DOMAIN runs : (GoodRunSettles(i) /\ runs[i].notified) =>
          statsCache' = calculateStats(runs[i].raw).stats]_vars

C16_Witness ==
  /\ settledNotified
  /\ lastOutcome = "ok"
  /\ statsCache = lastGood
  /\ timers # << >>

\* No recompute is scheduled, queued or in flight after a completed start.
Quiescent ==
  /\ initPc = "resolved"
  /\ events = << >>
  /\ timers = << >>
  /\ runs = << >>

\* C17: once initStatsCache has resolved and nothing is scheduled, queued or
\* in flight, and no run has failed, the Cache Slot holds the Aggregator
\* result for the current store.  Stated for behaviours in which every
\* change of the store since the initial read was announced by a 'change'
\* event, so that only the interleaving of the runs is left to decide it.
C17_QuiescentCacheIsFresh ==
  (Quiescent /\ ~everFailed /\ ~silent /\ calculateStats(store).ok)
  => statsCache = calculateStats(store).stats

\* C19: when the store is not changed any more once the watcher is
\* registered, the Cache Slot of the resolved, quiescent cache holds the
\* Aggregator result for the store, whatever happened to the store during
\* the start.
C19_StartupMutationReflected ==
  (Quiescent /\ ~announced /\ calculateStats(store).ok)
  => statsCache = calculateStats(store).stats

\* ------------------------------------------------------------------------
\* POST /api/items
\* ------------------------------------------------------------------------
WriteLands(r) == posts[r].pc = "writing" /\ posts'[r].pc = "written"
Answers201(r) == posts[r].pc = "written" /\ posts'[r].pc = "done"
ReadSettles(r) == posts[r].pc = "reading" /\ posts'[r].pc # "reading"
Unreadable(file) == file.kind \in {"missing", "corrupt", "notArray"}

\* the file holds the array `read` followed by `item` and nothing else
ReadPlusItem(file, read, item) ==
  /\ file.kind = "array"
  /\ Len(file.items) = Len(read) + 1
  /\ \A i \in 1 .. Len(read) : file.items[i] = read[i]
  /\ file.items[Len(file.items)] = item

\* C11: the write of a POST stores the sequence the handler read with the new
\* item as its last element (one longer, earlier items unchanged and in
\* order); the 201 answer carries that item with its id set from Date.now(),
\* and when no other POST ran during the request the store still holds
\* exactly that sequence when the answer is sent.
C11_PostAppendsItem ==
  /\ [][\A r \in Requests : WriteLands(r) =>
          ReadPlusItem(store', posts[r].read, posts[r].item)]_vars
  /\ [][\A r \in Requests : Answers201(r) =>
          /\ posts'[r].status = Created
          /\ posts'[r].body = "item"
          /\ posts'[r].item.body = r
          /\ posts'[r].item.id >= StartTime
          /\ ~posts[r].overlapped =>
               ReadPlusItem(store', posts[r].read, posts[r].item)]_vars

C11_Witness ==
  \E r \in Requests :
    /\ posts[r].status = Created
    /\ ~posts[r].overlapped
    /\ posts[r].read # << >>
    /\ ReadPlusItem(store, posts[r].read, posts[r].item)

\* C12: when the POSTs are handled one after the other, no two items in the
\* store that were created by POST have the same id.
C12_CreatedIdsUnique ==
  (\A r \in Requests : ~posts[r].overlapped) =>
    \A i, j \in DOMAIN store.items :
      (i # j /\ store.items[i].body \in Requests /\ store.items[j].body \in Requests)
        => store.items[i].id # store.items[j].id

\* C13: a POST whose read of the store fails answers 500 with an error body,
\* and it never writes: the store is as it was when the read settled.
C13_ReadFailureAnswers500 ==
  /\ [][\A r \in Requests : (ReadSettles(r) /\ Unreadable(store)) =>
          /\ posts'[r].pc = "done"
          /\ posts'[r].status = ServerError
          /\ posts'[r].body = "error"
          /\ store' = store]_vars
  /\ [](\A r \in Requests : posts[r].readFailed =>
          /\ ~posts[r].wrote
          /\ posts[r].status = ServerError)

C13_Witness ==
  \E r \in Requests :
    /\ posts[r].readFailed
    /\ posts[r].pc = "done"
    /\ posts[r].status = ServerError
    /\ Unreadable(store)

\* C18: when every POST has answered 201, the store holds every created item.
C18_NoCreatedItemLost ==
  (\A r \in Requests : posts[r].status = Created) =>
    \A r \in Requests : \E i \in DOMAIN store.items : store.items[i] = posts[r].item

\* ------------------------------------------------------------------------
\* GET /api/items
\* ------------------------------------------------------------------------
\* the page and pageSize the client asked for, with the defaults
AskedPage == IF Truthy(query.page) THEN parseInt(query.page) ELSE Num(1, 1)
AskedPageSize == IF Truthy(query.pageSize) THEN parseInt(query.pageSize) ELSE Num(10, 1)
Filtered == resultsOf(store.items, query)

\* the elements of seq at the 0-based positions first .. last
Positions(seq, first, last) ==
  LET lo == IF first < 0 THEN 0 ELSE first
      hi == IF last > Len(seq) - 1 THEN Len(seq) - 1 ELSE last
  IN IF lo <= hi THEN SubSeq(seq, lo + 1, hi + 1) ELSE << >>

\* ceil(n / d) for n >= 0 and d # 0
Ceil(n, d) == IF d > 0 THEN (n + d - 1) \div d ELSE -(n \div (-d))

\* C14: for a page and a pageSize that are integers (pageSize not 0) and no
\* legacy limit, the answer holds the filtered items at positions
\* (page-1)*pageSize .. page*pageSize-1, totalItems and totalPages are the
\* size of the filtered result and its ceiling quotient by pageSize,
\* hasNextPage says that a filtered item lies after the page and
\* hasPreviousPage that one lies before it.
C14_PageOfFilteredResult ==
  (/\ listResp.status = OK
   /\ ~Truthy(query.limit)
   /\ AskedPage.t = "number"
   /\ AskedPageSize.t = "number"
   /\ AskedPageSize.num # 0) =>
    LET p == AskedPage.num
        sz == AskedPageSize.num
        total == Len(Filtered)
    IN /\ listResp.items = Positions(Filtered, (p - 1) * sz, p * sz - 1)
       /\ listResp.pagination.totalItems = Num(total, 1)
       /\ listResp.pagination.totalPages = Num(Ceil(total, sz), 1)
       /\ listResp.pagination.hasNextPage <=> (\E k \in 0 .. total - 1 : k > p * sz - 1)
       /\ listResp.pagination.hasPreviousPage <=> (\E k \in 0 .. total - 1 : k < (p - 1) * sz)

\* ------------------------------------------------------------------------
\* The frontend
\* ------------------------------------------------------------------------
Failures == {"networkError", "httpError"}
Fails(i) == fetches[i].outcome = "pending" /\ fetches'[i].outcome \in Failures
Cleared(its, pg, isLoading) ==
  /\ its = << >>
  /\ pg = NoPaginationYet
  /\ ~isLoading
  /\ View(isLoading, its) = "No items found."

\* C15: the step in which a fetchItems call fails (network error or non-OK
\* status) leaves items = [], pagination = null and loading = false, so that
\* Items renders "No items found."; and the state is still so when the last
\* call made has failed and no call is pending.
C15_FailureClearsState ==
  /\ [][\A i \in DOMAIN fetches : Fails(i) =>
          Cleared(ctxItems', pagination', loading')]_vars
  /\ []((/\ fetches # << >>
         /\ fetches[Len(fetches)].outcome \in Failures
         /\ \A i \in DOMAIN fetches : ~Pending(fetches[i]))
        => Cleared(ctxItems, pagination, loading))

C15_Witness ==
  /\ Len(fetches) > 1
  /\ fetches[1].outcome = "ok"
  /\ fetches[Len(fetches)].outcome \in Failures
  /\ \A i \in DOMAIN fetches : ~Pending(fetches[i])
  /\ Cleared(ctxItems, pagination, loading)

\* C20: loading is true whenever a fetchItems call that was not aborted is
\* still in flight.
C20_LoadingWhileInFlight ==
  (\E i \in DOMAIN fetches : Pending(fetches[i]) /\ ~fetches[i].aborted) => loading

AbortTakesEffect(i) == Pending(fetches[i]) /\ fetches'[i].outcome = "aborted"

\* C21: the step in which an aborted fetchItems call settles leaves items and
\* pagination as they were (an abort is not handled as a failure).
C21_AbortKeepsState ==
  [][\A i \in DOMAIN fetches : AbortTakesEffect(i) =>
       /\ ctxItems' = ctxItems
       /\ pagination' = pagination]_vars
====
